---- MODULE Spec2Model ----
(***************************************************************************)
(* Voice Registry, Character Consistency Store, dialogue enhancement and   *)
(* the PDF-to-audio scene pipeline of the manga narration repository       *)
(* (src/data_processing).                                                  *)
(*                                                                         *)
(* Conventions.  A Python str is a tuple of one-character strings, so that *)
(* lower(), == and the `in` substring test are computed.  A Python dict    *)
(* whose iteration order the code never observes is a function; the        *)
(* Identity Records dict, which _find_similar_characters iterates, is a    *)
(* sequence of records in insertion order.  Timestamps are left out: no    *)
(* branch of the code reads them.                                          *)
(***************************************************************************)
EXTENDS Integers, Sequences, FiniteSets, TLC

VARIABLES
    voice_registry,      \* the VoiceRegistry instance: registry dict and the two cursors
    registry_file,       \* contents of voice_registry.json, or Absent
    consistency_data,    \* CharacterConsistencyManager.consistency_data
    consistency_file,    \* contents of character_consistency.json, or Absent
    last_call,           \* history: the latest VoiceRegistry call and what it returned
    auto_log,            \* history: handles handed out by _auto_assign_voice, per category
    last_register,       \* history: the latest register_scene_characters call and its outcome
    first_voice,         \* history: name -> handle the first register call returned for it
    entries,             \* history: roster entries submitted so far
    run,                 \* the process_pdf_scene call in progress: position and locals
    published,           \* history: speaker -> handles its lines carried in persisted scripts
    scenes_done,         \* history: process_pdf_scene calls started so far
    unified_output_file, \* contents of page_unknown.json, or Absent
    last_enhance,        \* history: the latest enhance_all_dialogue_at_once call made on its own
    last_validate,       \* history: the latest validate_json call made on its own
    jobs                 \* the ingest jobs: each job's position and its own pipeline instance

vars == <<voice_registry, registry_file, consistency_data, consistency_file,
          last_call, auto_log, last_register, first_voice, entries,
          run, published, scenes_done, unified_output_file, last_enhance, last_validate,
          jobs>>

----------------------------------------------------------------------------
(* Python values *)

None == "None"
Absent == [exists |-> FALSE]
EmptyDict == [k \in {} |-> None]

Put(d, k, v) == [x \in (DOMAIN d) \cup {k} |-> IF x = k THEN v ELSE d[x]]

UpperAlpha == <<"A","B","C","D","E","F","G","H","I","J","K","L","M",
                "N","O","P","Q","R","S","T","U","V","W","X","Y","Z">>
LowerAlpha == <<"a","b","c","d","e","f","g","h","i","j","k","l","m",
                "n","o","p","q","r","s","t","u","v","w","x","y","z">>

\* str.lower() on one character
LowerChar(c) ==
    IF \E i \in 1..Len(UpperAlpha) : UpperAlpha[i] = c
    THEN LowerAlpha[CHOOSE i \in 1..Len(UpperAlpha) : UpperAlpha[i] = c]
    ELSE c

\* str.lower()
Lower(s) == [i \in 1..Len(s) |-> LowerChar(s[i])]

\* a in b, for two strings
IsSubstring(a, b) ==
    \E i \in 0..(Len(b) - Len(a)) : SubSeq(b, i + 1, i + Len(a)) = a

----------------------------------------------------------------------------
(* Names the analyzer may return *)

Eren == <<"E","r","e","n">>
Armin == <<"A","r","m","i","n">>
Levi == <<"L","e","v","i">>
Jean == <<"J","e","a","n">>
Hannes == <<"H","a","n","n","e","s">>
OldHannes == <<"O","l","d"," ","H","a","n","n","e","s">>
Mikasa == <<"M","i","k","a","s","a">>
MissHannes == <<"M","i","s","s"," ","H","a","n","n","e","s">>
LowerHannes == <<"h","a","n","n","e","s">>
Narrator == <<"N","a","r","r","a","t","o","r">>
SoundEffect == <<"S","o","u","n","d"," ","E","f","f","e","c","t">>

FemaleKeywords ==
    { <<"m","i","k","a","s","a">>, <<"m","r","s">>, <<"m","i","s","s">>,
      <<"l","a","d","y">>, <<"w","o","m","a","n">>, <<"g","i","r","l">>,
      <<"f","e","m","a","l","e">>, <<"m","o","t","h","e","r">>,
      <<"s","i","s","t","e","r">>, <<"d","a","u","g","h","t","e","r">> }

HasFemaleKeyword(name) == \E kw \in FemaleKeywords : IsSubstring(kw, Lower(name))

\* the names the analyzers report in this development
KnownNames ==
    {Eren, Armin, Levi, Jean, Hannes, OldHannes, Mikasa, MissHannes, LowerHannes,
     Narrator, SoundEffect}

\* the keyword test and the name score, tabulated once over KnownNames
FemaleKeywordNames == {n \in KnownNames : HasFemaleKeyword(n)}

\* name part of the similarity score, in tenths: 0.4 equal ignoring case,
\* 0.2 one contains the other, else 0
NameSimilarity(char1_name, char2_name) ==
    IF Lower(char1_name) = Lower(char2_name) THEN 4
    ELSE IF \/ IsSubstring(Lower(char1_name), Lower(char2_name))
            \/ IsSubstring(Lower(char2_name), Lower(char1_name))
    THEN 2
    ELSE 0

NameSimilarityTable ==
    [a \in KnownNames |-> [b \in KnownNames |-> NameSimilarity(a, b)]]

----------------------------------------------------------------------------
(* VoiceRegistry (voice_registry.py) *)

male_voices == <<"5kMbtRSEKIkRZSdXxrZg", "wI49R6YUU5NNP1h0CECc", "vBKc2FfBKJfcZNyEt1n6",
                 "FIsP50cHv9JY47BkNVR7", "s0XGIcqmceN2l7kjsqoZ">>
female_voices == <<"CaT0A6YBELRBgT6Qa2lH", "bMxLr8fP6hzNRRi9nJxU", "Bn9xWp6PwkrqKRbq8cX2",
                   "iNwc1Lv2YQLywnCvjfn1", "uYXf8XasLslADfZ2MB4u">>

\* json.dump(self.registry): the document holds the registry dict and nothing else
SaveRegistry(vr) == [exists |-> TRUE, document |-> vr.registry]

LoadRegistry(file) ==
    IF ~file.exists
    THEN [characters |-> EmptyDict, voice_usage |-> EmptyDict]
    ELSE file.document

\* VoiceRegistry.__init__
NewVoiceRegistry(file) ==
    [registry |-> LoadRegistry(file), male_voice_index |-> 0, female_voice_index |-> 0]

NextMale(vr) ==
    [voice_id |-> male_voices[(vr.male_voice_index % Len(male_voices)) + 1],
     male_voice_index |-> vr.male_voice_index + 1,
     female_voice_index |-> vr.female_voice_index]

NextFemale(vr) ==
    [voice_id |-> female_voices[(vr.female_voice_index % Len(female_voices)) + 1],
     male_voice_index |-> vr.male_voice_index,
     female_voice_index |-> vr.female_voice_index + 1]

\* a variant of _auto_assign_voice in which the narrator branch also advances the male cursor
AutoAssignVoiceNarratorAdvances(vr, character_name, character_type) ==
    IF character_type = "male" THEN NextMale(vr)
    ELSE IF character_type = "female" THEN NextFemale(vr)
    ELSE IF character_type = "narrator"
         THEN [voice_id |-> male_voices[1],
               male_voice_index |-> vr.male_voice_index + 1,
               female_voice_index |-> vr.female_voice_index]
    ELSE IF character_name \in FemaleKeywordNames THEN NextFemale(vr)
    ELSE NextMale(vr)

\* _auto_assign_voice: the handle and the cursors after the call
AutoAssignVoice(vr, character_name, character_type) ==
    IF character_type = "male" THEN NextMale(vr)
    ELSE IF character_type = "female" THEN NextFemale(vr)
    ELSE IF character_type = "narrator"
         THEN [voice_id |-> male_voices[1],
               male_voice_index |-> vr.male_voice_index,
               female_voice_index |-> vr.female_voice_index]
    ELSE IF character_name \in FemaleKeywordNames THEN NextFemale(vr)
    ELSE NextMale(vr)

\* the handle assign_voice binds: the caller's, or the next of the rotation
ChosenVoice(vr, character_name, voice_id, character_type) ==
    IF voice_id = None
    THEN AutoAssignVoice(vr, character_name, character_type)
    ELSE [voice_id |-> voice_id,
          male_voice_index |-> vr.male_voice_index,
          female_voice_index |-> vr.female_voice_index]

\* voice_usage after counting one more character on voice_id
CountUse(voice_usage, voice_id, character_name) ==
    LET usage0 == IF voice_id \in DOMAIN voice_usage
                  THEN voice_usage
                  ELSE Put(voice_usage, voice_id, [count |-> 0, characters |-> <<>>])
    IN Put(usage0, voice_id,
           [count |-> usage0[voice_id].count + 1,
            characters |-> Append(usage0[voice_id].characters, character_name)])

\* _save_registry() and return voice_id
SavedAndReturned(vr2, voice_id) ==
    [vr |-> vr2, file |-> SaveRegistry(vr2), ret |-> voice_id]

\* the binding and the usage entry written for the chosen handle a
RecordBinding(vr, character_name, character_type, a) ==
    LET vr2 == [registry |->
                   [characters |->
                       Put(vr.registry.characters, character_name,
                           [voice_id |-> a.voice_id,
                            character_type |-> IF character_type = None THEN "unknown"
                                               ELSE character_type]),
                    voice_usage |-> CountUse(vr.registry.voice_usage, a.voice_id,
                                             character_name)],
                male_voice_index |-> a.male_voice_index,
                female_voice_index |-> a.female_voice_index]
    IN SavedAndReturned(vr2, a.voice_id)

\* assign_voice past its early return: choose the handle, bind it, count it, save
BindVoice(vr, file, character_name, voice_id, character_type) ==
    LET a == ChosenVoice(vr, character_name, voice_id, character_type)
    IN RecordBinding(vr, character_name, character_type, a)

\* a variant of assign_voice without the "already assigned" early return
AssignVoiceRebind(vr, file, character_name, voice_id, character_type) ==
    BindVoice(vr, file, character_name, voice_id, character_type)

\* assign_voice: the instance, the file and the returned handle after the call
AssignVoice(vr, file, character_name, voice_id, character_type) ==
    IF character_name \in DOMAIN vr.registry.characters
    THEN [vr |-> vr, file |-> file,
          ret |-> vr.registry.characters[character_name].voice_id]
    ELSE BindVoice(vr, file, character_name, voice_id, character_type)

\* list.remove(x): the first occurrence is taken out
RECURSIVE RemoveFirst(_, _)
RemoveFirst(list, x) ==
    IF list = <<>> THEN <<>>
    ELSE IF Head(list) = x THEN Tail(list)
    ELSE <<Head(list)>> \o RemoveFirst(Tail(list), x)

Contains(list, x) == \E i \in 1..Len(list) : list[i] = x

\* a variant of the old handle's bookkeeping that leaves the old usage entry alone
UncountUseKeepsEntry(voice_usage, old_voice_id, character_name) == voice_usage

\* reassign_voice lines 214-217: the old handle's usage entry loses the character
UncountUse(voice_usage, old_voice_id, character_name) ==
    IF old_voice_id \in DOMAIN voice_usage
    THEN Put(voice_usage, old_voice_id,
             [count |-> voice_usage[old_voice_id].count - 1,
              characters |-> IF Contains(voice_usage[old_voice_id].characters, character_name)
                             THEN RemoveFirst(voice_usage[old_voice_id].characters,
                                              character_name)
                             ELSE voice_usage[old_voice_id].characters])
    ELSE voice_usage

\* reassign_voice: the instance and the file after the call (it returns None)
ReassignVoice(vr, file, character_name, new_voice_id) ==
    IF character_name \notin DOMAIN vr.registry.characters
    THEN [vr |-> vr, file |-> file, ret |-> None]
    ELSE LET old_voice_id == vr.registry.characters[character_name].voice_id
             vr2 == [vr EXCEPT
                        !.registry.characters[character_name].voice_id = new_voice_id,
                        !.registry.voice_usage =
                            CountUse(UncountUse(@, old_voice_id, character_name),
                                     new_voice_id, character_name)]
         IN SavedAndReturned(vr2, None)

----------------------------------------------------------------------------
(* CharacterConsistencyManager (character_consistency_manager.py) *)

NewConsistencyData ==
    [scenes |-> EmptyDict, characters |-> <<>>, voice_assignments |-> EmptyDict]

\* a variant of _save_consistency_data that leaves the voice assignments out of the document
SaveConsistencyDataWithoutAssignments(data) ==
    [exists |-> TRUE, document |-> [data EXCEPT !.voice_assignments = EmptyDict]]

\* _save_consistency_data: json.dump of the whole dict
SaveConsistencyData(data) == [exists |-> TRUE, document |-> data]

\* _load_consistency_data
LoadConsistencyData(file) == IF file.exists THEN file.document ELSE NewConsistencyData

\* a variant of the membership test that never recognises a name
HasCharacterNever(characters, char_name) == FALSE

\* char_name in self.consistency_data["characters"]
HasCharacter(characters, char_name) ==
    \E i \in 1..Len(characters) : characters[i].name = char_name

CharacterIndex(characters, char_name) ==
    CHOOSE i \in 1..Len(characters) : characters[i].name = char_name

\* _detect_character_gender
DetectCharacterGender(char_name) ==
    IF char_name \in FemaleKeywordNames THEN "female" ELSE "male"

Min(a, b) == IF a < b THEN a ELSE b
Max(a, b) == IF a < b THEN b ELSE a

\* _calculate_character_similarity.  The float score is tenths/10 + (lo/hi)*0.1,
\* kept as the integers it is made of.  round_up records the one place where
\* binary64 addition leaves the exact sum: 0.4 + 0.2 = 0.6000000000000001, so that
\* 0.4 + 0.2 + 1.0*0.1 = 0.7000000000000001.  hi = 0 is the ZeroDivisionError.
CalculateCharacterSimilarity(char1_name, char1_data, char2_name, char2_data) ==
    LET name_tenths == NameSimilarityTable[char1_name][char2_name]
        type_eq == char1_data.importance = char2_data.character_type
        emotion_eq == char1_data.dominant_emotion = char2_data.dominant_emotion
    IN [tenths |-> name_tenths + (IF type_eq THEN 3 ELSE 0) + (IF emotion_eq THEN 2 ELSE 0),
        lo |-> Min(char1_data.appearance_count, char2_data.appearance_count),
        hi |-> Max(char1_data.appearance_count, char2_data.appearance_count),
        round_up |-> name_tenths = 4 /\ ~type_eq /\ emotion_eq]

\* similarity_score > 0.7
AboveThreshold(sim) ==
    \/ sim.tenths * sim.hi + sim.lo > 7 * sim.hi
    \/ sim.tenths * sim.hi + sim.lo = 7 * sim.hi /\ sim.round_up

\* a["similarity"] < b["similarity"]
SimilarityLess(a, b) ==
    LET x == (a.tenths * a.hi + a.lo) * b.hi
        y == (b.tenths * b.hi + b.lo) * a.hi
    IN x < y \/ (x = y /\ ~a.round_up /\ b.round_up)

\* _find_similar_characters raises ZeroDivisionError: both appearance counts are 0
SimilarityRaises(characters, char_data) ==
    \E i \in 1..Len(characters) :
        Max(char_data.appearance_count, characters[i].appearance_count) = 0

RECURSIVE SelectSimilar(_, _, _, _)
SelectSimilar(characters, char_name, char_data, i) ==
    IF i > Len(characters) THEN <<>>
    ELSE LET sim == CalculateCharacterSimilarity(char_name, char_data,
                                                 characters[i].name, characters[i])
             rest == SelectSimilar(characters, char_name, char_data, i + 1)
         IN IF AboveThreshold(sim)
            THEN <<[name |-> characters[i].name, voice_id |-> characters[i].voice_id,
                    similarity |-> sim]>> \o rest
            ELSE rest

\* _find_similar_characters: the records scoring above 0.7, in dict order
FindSimilarCharacters(characters, char_name, char_data) ==
    SelectSimilar(characters, char_name, char_data, 1)

\* max(similar_characters, key=lambda x: x["similarity"]): the first of the maxima
MostSimilar(similar_characters) ==
    similar_characters[
        CHOOSE i \in 1..Len(similar_characters) :
            /\ \A j \in 1..Len(similar_characters) :
                  ~SimilarityLess(similar_characters[i].similarity,
                                  similar_characters[j].similarity)
            /\ \A j \in 1..(i - 1) :
                  SimilarityLess(similar_characters[j].similarity,
                                 similar_characters[i].similarity)]

\* the handle of the most similar record; the registry is not touched
AdoptedVoice(most_similar, vr, file) ==
    [voice |-> most_similar.voice_id, source |-> most_similar.name,
     vr |-> vr, file |-> file]

\* the handle assign_voice returned, with the registry it left
RegistryVoice(r) == [voice |-> r.ret, source |-> None, vr |-> r.vr, file |-> r.file]

VoiceGivenSimilar(similar_characters, vr, file, char_name, gender) ==
    IF Len(similar_characters) > 0
    THEN LET most_similar == MostSimilar(similar_characters)
         IN AdoptedVoice(most_similar, vr, file)
    ELSE LET r == AssignVoice(vr, file, char_name, None, gender)
         IN RegistryVoice(r)

\* _assign_voice_to_character: the handle, where it came from, and the registry afterwards
AssignVoiceToCharacter(characters, vr, file, char_name, char_data, gender) ==
    LET similar_characters == FindSimilarCharacters(characters, char_name, char_data)
    IN VoiceGivenSimilar(similar_characters, vr, file, char_name, gender)

\* what one iteration of the roster loop did (history kept with the call's outcome)
Event(st, char_name, char_data, new, voice, source) ==
    [name |-> char_name, data |-> char_data, new |-> new,
     before |-> st.data.characters, voice |-> voice, source |-> source]

\* the name has a record: its handle is returned and the scene is appended
ExistingCharacter(st, scene_id, char_name, char_data, i) ==
    [st EXCEPT !.data.characters[i].scenes = Append(@, scene_id),
               !.voice_assignments = Put(@, char_name, st.data.characters[i].voice_id),
               !.events = Append(@, Event(st, char_name, char_data, FALSE,
                                          st.data.characters[i].voice_id, None))]

\* the name is new: a record is created with the handle a.voice
NewCharacter(st, scene_id, char_name, char_data, gender, a) ==
    [st EXCEPT !.data.characters =
                   Append(@, [name |-> char_name,
                              voice_id |-> a.voice,
                              character_type |-> char_data.importance,
                              gender |-> gender,
                              scenes |-> <<scene_id>>,
                              appearance_count |-> char_data.appearance_count,
                              dominant_emotion |-> char_data.dominant_emotion]),
               !.vr = a.vr,
               !.file = a.file,
               !.voice_assignments = Put(@, char_name, a.voice),
               !.events = Append(@, Event(st, char_name, char_data, TRUE, a.voice, a.source))]

\* one iteration of the roster loop of register_scene_characters
ProcessCharacter(st, scene_id, char_name, char_data) ==
    IF st.raised THEN st
    ELSE IF HasCharacter(st.data.characters, char_name)
    THEN ExistingCharacter(st, scene_id, char_name, char_data,
                           CharacterIndex(st.data.characters, char_name))
    ELSE IF SimilarityRaises(st.data.characters, char_data)
    THEN [st EXCEPT !.raised = TRUE,
                    !.events = Append(@, Event(st, char_name, char_data, TRUE, None, None))]
    ELSE LET gender == DetectCharacterGender(char_name)
             a == AssignVoiceToCharacter(st.data.characters, st.vr, st.file,
                                         char_name, char_data, gender)
         IN NewCharacter(st, scene_id, char_name, char_data, gender, a)

RECURSIVE ProcessRoster(_, _, _, _, _)
ProcessRoster(st, scene_id, characters, character_consistency, i) ==
    IF i > Len(characters) THEN st
    ELSE LET st2 == ProcessCharacter(st, scene_id, characters[i],
                                     character_consistency[characters[i]])
         IN ProcessRoster(st2, scene_id, characters, character_consistency, i + 1)

\* the end of register_scene_characters: a raise leaves what the loop wrote in
\* memory and saves nothing; otherwise the scene's assignments are stored and saved
FinishRegistration(st, cfile, scene_id) ==
    IF st.raised
    THEN [data |-> st.data, vr |-> st.vr, rfile |-> st.file, cfile |-> cfile,
          ok |-> FALSE, ret |-> EmptyDict, events |-> st.events]
    ELSE [data |-> [st.data EXCEPT !.voice_assignments =
                                       Put(@, scene_id, st.voice_assignments)],
          vr |-> st.vr, rfile |-> st.file,
          cfile |-> SaveConsistencyData(
                        [st.data EXCEPT !.voice_assignments =
                                            Put(@, scene_id, st.voice_assignments)]),
          ok |-> TRUE, ret |-> st.voice_assignments, events |-> st.events]

\* register_scene_characters: the store, the registry, both files and the outcome
\* (ok = FALSE: the call raised)
RegisterSceneCharacters(data, vr, rfile, cfile, scene_id, scene_analysis) ==
    LET st0 == [data |-> [data EXCEPT !.scenes =
                             Put(@, scene_id,
                                 [scene_id |-> scene_id,
                                  total_pages |-> scene_analysis.total_pages,
                                  characters |-> scene_analysis.characters,
                                  character_count |-> Len(scene_analysis.characters)])],
                vr |-> vr, file |-> rfile,
                voice_assignments |-> EmptyDict, events |-> <<>>, raised |-> FALSE]
        st == ProcessRoster(st0, scene_id, scene_analysis.characters,
                            scene_analysis.consistency, 1)
    IN FinishRegistration(st, cfile, scene_id)

----------------------------------------------------------------------------
(* AudioTagEnhancer (audio_tag_enhancer.py) *)

\* A JSON value as json.loads returns it: an array (items), a string (items are
\* its characters), an object (items are its member values, the keys are
\* strings), a number; "garbage" is text json.loads rejects.
JsonValue(type, items) == [type |-> type, items |-> items]

NoText == [open |-> "", body |-> JsonValue("garbage", <<>>), close |-> ""]

\* response.text.strip(), then a leading fence with the json tag ("fence_json":
\* three backquotes and the word json) and a trailing fence ("fence": three
\* backquotes) are cut and the rest goes to json.loads; a leading fence without
\* the tag stays in the text
ParseResponse(text) ==
    IF text.open \in {"", "fence_json"} /\ text.body.type # "garbage"
    THEN [ok |-> TRUE, value |-> text.body]
    ELSE [ok |-> FALSE, value |-> text.body]

\* a variant of the size validation that rejects only a short response
SizeMismatchWhenShort(enhanced_texts, all_dialogue_data) ==
    Len(enhanced_texts.items) < Len(all_dialogue_data)

\* len(enhanced_texts) != len(all_dialogue_data)
SizeMismatch(enhanced_texts, all_dialogue_data) ==
    Len(enhanced_texts.items) # Len(all_dialogue_data)

\* the copy loop: item i with its text replaced by enhanced_texts[i]
EnhancedDialogue(all_dialogue_data, enhanced_texts) ==
    [i \in 1..Len(all_dialogue_data) |->
        [all_dialogue_data[i] EXCEPT !.text = enhanced_texts.items[i]]]

\* what becomes of a parsed response: len() of a number and indexing an object
\* by position raise inside the outer try, which returns the input
AcceptParsed(all_dialogue_data, parsed) ==
    IF ~parsed.ok THEN all_dialogue_data
    ELSE IF parsed.value.type = "number" THEN all_dialogue_data
    ELSE IF SizeMismatch(parsed.value, all_dialogue_data) THEN all_dialogue_data
    ELSE IF parsed.value.type = "object" THEN all_dialogue_data
    ELSE EnhancedDialogue(all_dialogue_data, parsed.value)

\* a variant that answers a collaborator exception with blank texts
EnhanceAllDialogueBlankOnError(all_dialogue_data, response) ==
    IF response.kind = "raise"
    THEN [i \in 1..Len(all_dialogue_data) |-> [all_dialogue_data[i] EXCEPT !.text = ""]]
    ELSE IF response.kind = "empty" THEN all_dialogue_data
    ELSE AcceptParsed(all_dialogue_data, ParseResponse(response.text))

\* enhance_all_dialogue_at_once
EnhanceAllDialogueAtOnce(all_dialogue_data, response) ==
    IF Len(all_dialogue_data) = 0 THEN all_dialogue_data
    ELSE IF response.kind = "raise" THEN all_dialogue_data
    ELSE IF response.kind = "empty" THEN all_dialogue_data
    ELSE AcceptParsed(all_dialogue_data, ParseResponse(response.text))

----------------------------------------------------------------------------
(* ElevenLabsJSONBuilder (eleven_json_builder.py) *)

\* characters_dict[char_name] = {"voice_id": the handle assign_voice returned};
\* the expression field is left out, nothing reads it
AddCharacter(st, char_name, r) ==
    [st EXCEPT !.vr = r.vr, !.file = r.file,
               !.characters = Put(@, char_name, [voice_id |-> r.ret])]

\* one turn of the speaking_characters loop: char["name"] raises on an entry
\* without a name
SpeakingCharacter(st, char) ==
    IF ~st.ok THEN st
    ELSE IF "name" \notin DOMAIN char THEN [st EXCEPT !.ok = FALSE]
    ELSE AddCharacter(st, char.name, AssignVoice(st.vr, st.file, char.name, None, None))

RECURSIVE SpeakingCharacters(_, _, _)
SpeakingCharacters(st, characters, i) ==
    IF i > Len(characters) THEN st
    ELSE LET st2 == SpeakingCharacter(st, characters[i])
         IN SpeakingCharacters(st2, characters, i + 1)

\* the narrator's entry: assign_voice("Narrator", character_type="narrator")
AddNarrator(st) ==
    IF ~st.ok THEN st
    ELSE AddCharacter(st, Narrator, AssignVoice(st.vr, st.file, Narrator, None, "narrator"))

\* a line of dialogue_list in the speaker's characters_dict voice
SpokenLine(st, speaker, text) ==
    [st EXCEPT !.dialogue = Append(@, [speaker |-> speaker,
                                       voice_id |-> st.characters[speaker].voice_id,
                                       text |-> text,
                                       page_number |-> "unknown"])]

\* the scene description as the narrator's opening line
NarratorLine(st, scene_description) ==
    IF ~st.ok \/ scene_description = "" THEN st
    ELSE SpokenLine(st, Narrator, "[calm] " \o scene_description)

\* one turn of the dialogue loop: a speaker without an entry gets one from
\* assign_voice(speaker)
DialogueLine(st, dialogue) ==
    IF ~st.ok THEN st
    ELSE IF dialogue.speaker \in DOMAIN st.characters
    THEN SpokenLine(st, dialogue.speaker, dialogue.text)
    ELSE LET st2 == AddCharacter(st, dialogue.speaker,
                                 AssignVoice(st.vr, st.file, dialogue.speaker, None, None))
         IN SpokenLine(st2, dialogue.speaker, dialogue.text)

RECURSIVE DialogueLines(_, _, _)
DialogueLines(st, dialogue_order, i) ==
    IF i > Len(dialogue_order) THEN st
    ELSE LET st2 == DialogueLine(st, dialogue_order[i])
         IN DialogueLines(st2, dialogue_order, i + 1)

\* build_eleven_json(page_data, enhanced_dialogue, add_narrator=True) on the
\* registry vr: ok = FALSE when it raised; the registry keeps what was bound
BuildElevenJson(vr, file, page_data, enhanced_dialogue) ==
    LET st0 == [ok |-> TRUE, vr |-> vr, file |-> file,
                characters |-> EmptyDict, dialogue |-> <<>>]
        st1 == SpeakingCharacters(st0, page_data.speaking_characters, 1)
        st2 == AddNarrator(st1)
        st3 == NarratorLine(st2, page_data.scene)
    IN DialogueLines(st3, enhanced_dialogue.dialogue_order, 1)

\* A JSON document as Python holds it: a dict (members: key -> value), a list
\* (items), or a str, number or None
Json(type, members, items) == [type |-> type, members |-> members, items |-> items]
JsonDict(members) == Json("dict", members, <<>>)
JsonList(items) == Json("list", EmptyDict, items)
JsonStr == Json("str", EmptyDict, <<>>)
JsonNumber == Json("number", EmptyDict, <<>>)
JsonNone == Json("None", EmptyDict, <<>>)

\* a name as a dict key of a document
RECURSIVE Text(_)
Text(name) == IF name = <<>> THEN "" ELSE Head(name) \o Text(Tail(name))

\* the document build_eleven_json returns (lines 118-130) for the loops' result
ElevenJson(st) ==
    JsonDict([k \in {"page_id", "scene_title", "ambient", "characters", "dialogue",
                      "metadata"} |->
        CASE k = "characters" ->
                 JsonDict([n \in {Text(c) : c \in DOMAIN st.characters} |->
                              JsonDict([f \in {"voice_id", "expression"} |-> JsonStr])])
          [] k = "dialogue" ->
                 JsonList([i \in 1..Len(st.dialogue) |->
                              JsonDict([f \in {"speaker", "voice_id", "text", "page_number",
                                                "emotion", "confidence"} |-> JsonStr])])
          [] k = "metadata" ->
                 JsonDict([f \in {"generated_at", "total_dialogue_lines",
                                   "total_characters", "has_narrator"} |-> JsonStr])
          [] OTHER -> JsonStr])

required_fields == {"page_id", "scene_title", "characters", "dialogue"}
required_dialogue_fields == {"speaker", "voice_id", "text"}

\* the checks of validate_json on a dict
ValidDict(eleven_json) ==
    /\ required_fields \subseteq DOMAIN eleven_json.members
    /\ eleven_json.members["characters"].type = "dict"
    /\ \A n \in DOMAIN eleven_json.members["characters"].members :
           LET char_data == eleven_json.members["characters"].members[n]
           IN char_data.type = "dict" /\ "voice_id" \in DOMAIN char_data.members
    /\ eleven_json.members["dialogue"].type = "list"
    /\ \A i \in 1..Len(eleven_json.members["dialogue"].items) :
           LET dialogue_item == eleven_json.members["dialogue"].items[i]
           IN /\ dialogue_item.type = "dict"
              /\ required_dialogue_fields \subseteq DOMAIN dialogue_item.members

\* validate_json: `field not in eleven_json` raises TypeError on None and on a
\* number, is true of a list or str that holds no field name, and is the key
\* test on a dict; nothing past that test raises
ValidateJson(eleven_json) ==
    IF eleven_json.type \in {"None", "number"} THEN [raised |-> TRUE, ret |-> FALSE]
    ELSE IF eleven_json.type \in {"list", "str"} THEN [raised |-> FALSE, ret |-> FALSE]
    ELSE [raised |-> FALSE, ret |-> ValidDict(eleven_json)]


----------------------------------------------------------------------------
(* TwoPassHybridAnalyzer (two_pass_hybrid_analyzer.py) *)

\* what _analyze_single_page_with_context returns when the model call or the
\* parse of its answer fails
MinimalAnalysis ==
    [scene |-> "Analysis failed", speaking_characters |-> <<>>, dialogue_order |-> <<>>]

\* character_consistency[name] of _build_final_scene_analysis, with the
\* defaults register_scene_characters reads it through; a name listed twice
\* keeps its last entry
CharacterConsistency(characters) ==
    [n \in {characters[i].name : i \in 1..Len(characters)} |->
        LET i == CHOOSE i \in 1..Len(characters) :
                     /\ characters[i].name = n
                     /\ \A j \in (i + 1)..Len(characters) : characters[j].name # n
        IN [importance |-> characters[i].importance,
            appearance_count |-> Len(characters[i].appears_in_pages),
            dominant_emotion |-> "neutral"]]

\* the part of the scene analysis register_scene_characters reads
BuildFinalSceneAnalysis(individual_analyses, characters) ==
    [total_pages |-> Len(individual_analyses),
     characters |-> [i \in 1..Len(characters) |-> characters[i].name],
     consistency |-> CharacterConsistency(characters)]

----------------------------------------------------------------------------
(* PDFToAudioPipeline.process_pdf_scene (pdf_to_audio_pipeline.py) *)

\* a stage of the call: Pass 1, Pass 2 of a page, registration, the enhancement
\* model call, the assembly of a page, the write of the unified script
Stage(stage, page) == [stage |-> stage, page |-> page]

\* the locals of a process_pdf_scene call at position pc; stages is the history
\* of the stages the call has gone through, in order; further history fields:
\* pass1 (pending, ok or raised), pass2_failed (the pages whose Pass 2 fell back
\* to the minimal analysis), response (what the enhancement model answered),
\* assembly_failed (the pages whose assembly raised)
ProcessRun(pc, scene_id, total_pages, images) ==
    [pc |-> pc, scene_id |-> scene_id, total_pages |-> total_pages, images |-> images,
     characters |-> <<>>, page_analyses |-> <<>>,
     pass1 |-> "pending", pass2_failed |-> {}, assembly_failed |-> {},
     response |-> [kind |-> "pending", text |-> NoText],
     voice_assignments |-> EmptyDict,
     all_dialogue_data |-> <<>>, enhanced_all_dialogue |-> <<>>,
     page |-> 1, all_dialogue |-> <<>>, all_characters |-> EmptyDict,
     successful_pages |-> 0, failed_pages |-> 0,
     extract_images |-> TRUE, cleanup_images |-> TRUE, stages |-> <<>>]

\* step 4: every page's dialogue items in page order, each with its page number
\* and its position in the collected list
RECURSIVE CollectDialogue(_, _, _)
CollectDialogue(page_analyses, i, all_dialogue_data) ==
    IF i > Len(page_analyses) THEN all_dialogue_data
    ELSE LET dialogue_order == page_analyses[i].dialogue_order
             items == [j \in 1..Len(dialogue_order) |->
                          [speaker |-> dialogue_order[j].speaker,
                           text |-> dialogue_order[j].text,
                           page_number |-> i,
                           original_page_index |-> Len(all_dialogue_data) + j - 1]]
         IN CollectDialogue(page_analyses, i + 1, all_dialogue_data \o items)

\* the enhanced items whose page_dialogue_mapping entry is page_number
RECURSIVE PageDialogue(_, _, _, _)
PageDialogue(all_dialogue_data, enhanced_all_dialogue, page_number, j) ==
    IF j > Len(all_dialogue_data) THEN <<>>
    ELSE (IF all_dialogue_data[j].page_number = page_number
          THEN <<enhanced_all_dialogue[j]>> ELSE <<>>)
         \o PageDialogue(all_dialogue_data, enhanced_all_dialogue, page_number, j + 1)

\* lines 174-179: a speaker with a scene-level assignment gets that handle, every
\* line gets the page number
OverrideDialogue(dialogue, voice_assignments, page_number) ==
    [i \in 1..Len(dialogue) |->
        [dialogue[i] EXCEPT
            !.voice_id = IF dialogue[i].speaker \in DOMAIN voice_assignments
                         THEN voice_assignments[dialogue[i].speaker] ELSE @,
            !.page_number = page_number]]

\* lines 182-185 on the page's characters dictionary
OverrideCharacters(characters, voice_assignments) ==
    [n \in DOMAIN characters |->
        IF n \in DOMAIN voice_assignments
        THEN [characters[n] EXCEPT !.voice_id = voice_assignments[n]]
        ELSE characters[n]]

\* dict.update
Update(d, e) == [k \in (DOMAIN d) \cup (DOMAIN e) |-> IF k \in DOMAIN e THEN e[k] ELSE d[k]]

\* the body of the per-page try and its except, given what build_eleven_json did
PageAssembled(r, page_number, eleven_json) ==
    IF eleven_json.ok
    THEN [r EXCEPT !.all_dialogue =
                       @ \o OverrideDialogue(eleven_json.dialogue, r.voice_assignments,
                                             page_number),
                   !.all_characters =
                       Update(@, OverrideCharacters(eleven_json.characters,
                                                    r.voice_assignments)),
                   !.successful_pages = @ + 1,
                   !.page = page_number + 1,
                   !.stages = Append(@, Stage("assemble", page_number))]
    ELSE [r EXCEPT !.failed_pages = @ + 1,
                   !.assembly_failed = @ \cup {page_number},
                   !.page = page_number + 1,
                   !.stages = Append(@, Stage("assemble", page_number))]

\* one turn of the step-6 loop: the locals after it, and the registry
ProcessPage(r, vr, file) ==
    LET eleven_json ==
            BuildElevenJson(vr, file, r.page_analyses[r.page],
                            [dialogue_order |->
                                PageDialogue(r.all_dialogue_data, r.enhanced_all_dialogue,
                                             r.page, 1)])
    IN [run |-> PageAssembled(r, r.page, eleven_json),
        vr |-> eleven_json.vr, file |-> eleven_json.file]

\* the unified script of step 7
UnifiedJson(r) ==
    [scene_id |-> r.scene_id, characters |-> r.all_characters, dialogue |-> r.all_dialogue,
     metadata |-> [total_pages |-> r.total_pages,
                   successful_pages |-> r.successful_pages,
                   failed_pages |-> r.failed_pages,
                   total_dialogue_lines |-> Len(r.all_dialogue),
                   total_characters |-> Cardinality(DOMAIN r.all_characters)]]

\* final_results of step 9, what process_pdf_scene returns
FinalResults(r) ==
    [scene_id |-> r.scene_id, total_pages |-> r.total_pages,
     successful_pages |-> r.successful_pages, failed_pages |-> r.failed_pages,
     total_dialogue_lines |-> Len(r.all_dialogue),
     total_characters |-> Cardinality(DOMAIN r.all_characters),
     voice_assignments |-> r.voice_assignments]

\* what _cleanup_page_images meets: every image and the directory are removed,
\* an unlink fails (the image stays and rmdir fails on the non-empty directory),
\* only rmdir fails, or listing the directory fails; each is logged and caught
CleanupOutcomes == {"removed", "unlink_failed", "rmdir_failed", "listing_failed"}

\* _cleanup_page_images: the page images afterwards; it never raises
CleanupPageImages(images, outcome) ==
    IF outcome = "removed" THEN "deleted"
    ELSE IF outcome = "unlink_failed" THEN "partly_deleted"
    ELSE IF outcome = "rmdir_failed" THEN "files_deleted"
    ELSE images

\* a variant of step 8 in which a failed unlink ends the call
CleanupResultRaisesOnUnlink(r, outcome) ==
    IF r.extract_images /\ r.cleanup_images
    THEN [r EXCEPT !.pc = IF outcome = "unlink_failed" THEN "failed" ELSE "summary",
                   !.images = CleanupPageImages(r.images, outcome)]
    ELSE [r EXCEPT !.pc = "summary"]

\* step 8: the locals after the optional cleanup
CleanupResult(r, outcome) ==
    IF r.extract_images /\ r.cleanup_images
    THEN [r EXCEPT !.pc = "summary", !.images = CleanupPageImages(r.images, outcome)]
    ELSE [r EXCEPT !.pc = "summary"]

\* the handles a speaker's lines carried in the scripts persisted so far
PublishedAfter(handles, dialogue) ==
    LET speakers == {dialogue[i].speaker : i \in 1..Len(dialogue)}
    IN [n \in (DOMAIN handles) \cup speakers |->
           (IF n \in DOMAIN handles THEN handles[n] ELSE {})
           \cup {dialogue[i].voice_id : i \in {j \in 1..Len(dialogue) : dialogue[j].speaker = n}}]

----------------------------------------------------------------------------
(* Bounds and input sets *)

NumNames == 3
NumCast == 7

AllNames == <<Hannes, OldHannes, Eren, MissHannes, Mikasa, Armin, Levi, Jean>>

\* names passed to the registry
RegistryNames == {AllNames[i] : i \in 1..NumNames}

\* explicit handles a caller may pass (load_voice_assignments passes any handle of a file)
ExplicitVoices == {"custom_voice"}

CharacterTypes == {None, "male", "female", "narrator"}

\* (voice_id, character_type) argument pairs: a type hint, or an explicit handle
CallShapes == {<<None, t>> : t \in CharacterTypes} \cup {<<v, None>> : v \in ExplicitVoices}

----------------------------------------------------------------------------
(* One VoiceRegistry instance over voice_registry.json *)

\* the category _auto_assign_voice serves a call from
Category(character_name, character_type) ==
    IF character_type \in {"male", "female", "narrator"} THEN character_type
    ELSE IF character_name \in FemaleKeywordNames THEN "female" ELSE "male"

\* the ingest jobs of the model: start_ingest was called twice
JobIds == {1, 2}

\* a job start_ingest has queued: _process_job has not built its pipeline yet;
\* records and bound are history, the names whose Identity Record and whose
\* registry binding this job created, and handles what registration returned
QueuedJob ==
    [pc |-> "queued", vr |-> NewVoiceRegistry(Absent), data |-> NewConsistencyData,
     characters |-> <<>>, records |-> {}, bound |-> {}, handles |-> EmptyDict]

\* no process_pdf_scene call has been made
IdleRun == ProcessRun("idle", "", 0, "none")

\* a fresh process over empty durable stores
InitStores ==
    /\ registry_file = Absent
    /\ voice_registry = NewVoiceRegistry(Absent)
    /\ consistency_file = Absent
    /\ consistency_data = LoadConsistencyData(Absent)
    /\ last_call = [op |-> "init"]
    /\ auto_log = [male |-> <<>>, female |-> <<>>]
    /\ last_register = [op |-> "init"]
    /\ first_voice = EmptyDict
    /\ entries = 0
    /\ run = IdleRun
    /\ published = EmptyDict
    /\ scenes_done = 0
    /\ unified_output_file = Absent
    /\ last_enhance = [op |-> "init"]
    /\ last_validate = [op |-> "init"]
    /\ jobs = [j \in JobIds |-> QueuedJob]

storeVars == <<consistency_data, consistency_file, last_register, first_voice, entries>>

pipeVars == <<run, published, scenes_done, unified_output_file, last_enhance,
              last_validate, jobs>>

IsBound(character_name) == character_name \in DOMAIN voice_registry.registry.characters

\* the effect of registry.assign_voice(character_name, voice_id, character_type)
AssignVoiceStep(character_name, voice_id, character_type) ==
    LET r == AssignVoice(voice_registry, registry_file, character_name, voice_id, character_type)
        cat == Category(character_name, character_type)
    IN /\ voice_registry' = r.vr
       /\ registry_file' = r.file
       /\ auto_log' = IF ~IsBound(character_name) /\ voice_id = None
                         /\ cat \in {"male", "female"}
                      THEN [auto_log EXCEPT ![cat] = Append(@, r.ret)]
                      ELSE auto_log
       /\ UNCHANGED <<storeVars, pipeVars>>

\* a caller's assign_voice, with what it passed and what it got back
AssignVoiceCall(character_name, voice_id, character_type) ==
    /\ AssignVoiceStep(character_name, voice_id, character_type)
    /\ last_call' = [op |-> "assign", name |-> character_name, voice_id |-> voice_id,
                     character_type |-> character_type,
                     bound_before |-> IsBound(character_name),
                     ret |-> AssignVoice(voice_registry, registry_file, character_name,
                                         voice_id, character_type).ret]

NextRegistry ==
    \E n \in RegistryNames, c \in CallShapes : AssignVoiceCall(n, c[1], c[2])

SpecRegistry == InitStores /\ [][NextRegistry]_vars

\* A cast of NumCast names: the names first appear in cast order, and the name
\* assigned last may be assigned again
CastAssign(i, voice_id, character_type) ==
    /\ \A j \in 1..(i - 1) : IsBound(AllNames[j])
    /\ i < NumCast => ~IsBound(AllNames[i + 1])
    /\ AssignVoiceStep(AllNames[i], voice_id, character_type)
    /\ UNCHANGED last_call

NextRoundRobin ==
    \E i \in 1..NumCast, c \in CallShapes : CastAssign(i, c[1], c[2])

SpecRoundRobin == InitStores /\ [][NextRoundRobin]_vars

----------------------------------------------------------------------------
(* Voice Registry properties *)

----------------------------------------------------------------------------
(* The Character Consistency Store driven scene by scene *)

MaxEntries == 3

SceneIds == {"s1", "s2"}
Importances == {"main", "supporting"}
AppearanceCounts == {0, 1, 2}

\* what the roster loop reads from character_consistency[char_name], defaults applied;
\* the two-pass analyzer supplies no dominant_emotion, the scene analyzer does
CharDatas ==
    {[importance |-> "main", appearance_count |-> c, dominant_emotion |-> "neutral"] :
        c \in AppearanceCounts}
    \cup
    {[importance |-> "supporting", appearance_count |-> c, dominant_emotion |-> "angry"] :
        c \in AppearanceCounts}

Rosters ==
    {<<a>> : a \in RegistryNames} \cup {<<a, b>> : a, b \in RegistryNames}

RosterNames(characters) == {characters[i] : i \in 1..Len(characters)}

\* a call of register_scene_characters on this manager
RegisterScene(scene_id, characters, character_consistency) ==
    /\ entries + Len(characters) <= MaxEntries
    /\ \E r \in {RegisterSceneCharacters(consistency_data, voice_registry, registry_file,
                                          consistency_file, scene_id,
                                          [total_pages |-> 1, characters |-> characters,
                                           consistency |-> character_consistency])} :
       /\ consistency_data' = r.data
       /\ voice_registry' = r.vr
       /\ registry_file' = r.rfile
       /\ consistency_file' = r.cfile
       /\ last_register' = [op |-> "register", scene_id |-> scene_id, ok |-> r.ok,
                            ret |-> r.ret, events |-> r.events]
       /\ first_voice' = IF r.ok
                         THEN [n \in (DOMAIN first_voice) \cup (DOMAIN r.ret) |->
                                  IF n \in DOMAIN first_voice THEN first_voice[n]
                                  ELSE r.ret[n]]
                         ELSE first_voice
       /\ entries' = entries + Len(characters)
       /\ UNCHANGED <<last_call, auto_log, pipeVars>>

\* CharacterConsistencyManager.__init__ in a new process: both stores are read back
NewManager ==
    /\ consistency_data' = LoadConsistencyData(consistency_file)
    /\ voice_registry' = NewVoiceRegistry(registry_file)
    /\ last_register' = [op |-> "new"]
    /\ UNCHANGED <<registry_file, consistency_file, last_call, auto_log, first_voice, entries,
                   pipeVars>>

NextStore ==
    \/ \E scene_id \in SceneIds, characters \in Rosters :
          \E character_consistency \in [RosterNames(characters) -> CharDatas] :
              RegisterScene(scene_id, characters, character_consistency)
    \/ NewManager

SpecStore == InitStores /\ [][NextStore]_vars

\* C3: assign on a name that already has a binding returns the bound handle and
\* changes nothing (bindings, usage counters, both cursors, the file), whatever
\* explicit handle or category the call passes.
C3_AssignBoundIsIdempotent ==
    [][ (last_call'.op = "assign" /\ last_call'.bound_before)
        => /\ voice_registry' = voice_registry
           /\ registry_file' = registry_file
           /\ last_call'.ret
                = voice_registry.registry.characters[last_call'.name].voice_id ]_vars

\* a bound name was assigned again with an explicit handle other than its own
C3_Witness ==
    /\ last_call.op = "assign"
    /\ last_call.bound_before
    /\ last_call.voice_id # None
    /\ last_call.voice_id # last_call.ret

Pool(cat) == IF cat = "female" THEN female_voices ELSE male_voices

\* C4: the Nth new name auto-assigned in a category (male or female, explicit or
\* inferred from the name) by a registry instance receives pool[(N-1) mod k],
\* whatever other-category, explicit-handle, narrator and repeated assigns are
\* interleaved.
C4_RoundRobinDeterminism ==
    \A cat \in {"male", "female"} :
        \A N \in 1..Len(auto_log[cat]) :
            auto_log[cat][N] = Pool(cat)[((N - 1) % Len(Pool(cat))) + 1]

\* the male pool has wrapped (a 6th name got pool[0]) with another binding interleaved
C4_Witness ==
    /\ Len(auto_log.male) > Len(male_voices)
    /\ auto_log.male[Len(male_voices) + 1] = male_voices[1]
    /\ Cardinality(DOMAIN voice_registry.registry.characters) > Len(auto_log.male)

\* C5: a Voice Registry re-created from the durable store has the same bindings and
\* the same two cursor values as the instance that wrote it.
C5_ReloadedRegistryEqualsWriter ==
    NewVoiceRegistry(registry_file) = voice_registry

----------------------------------------------------------------------------
(* The enhancer called on its own *)

MaxLines == 3

SeqsUpTo(S, n) == UNION {[1..k -> S] : k \in 0..n}

DialogueTexts == {"one", "two"}
EnhancedTexts == {"[sighs] one", "[angry] two"}

\* step 4 of process_pdf_scene: lines with page_number and original_page_index added
DialogueLists ==
    {[i \in 1..Len(texts) |->
         [speaker |-> Hannes, text |-> texts[i], page_number |-> 1,
          original_page_index |-> i - 1]] :
     texts \in SeqsUpTo(DialogueTexts, MaxLines)}

JsonBodies ==
    {JsonValue("garbage", <<>>), JsonValue("number", <<>>)}
    \cup {JsonValue("array", items) : items \in SeqsUpTo(EnhancedTexts, MaxLines + 1)}
    \cup {JsonValue("object", items) : items \in SeqsUpTo({"[sighs] one"}, MaxLines + 1)}
    \cup {JsonValue("string", items) : items \in SeqsUpTo({"x"}, MaxLines + 1)}

\* what generate_content does: raises, answers with no text, or answers with text
Responses ==
    {[kind |-> k, text |-> NoText] : k \in {"raise", "empty"}}
    \cup {[kind |-> "text", text |-> [open |-> o, body |-> b, close |-> c]] :
            o \in {"", "fence_json", "fence"}, b \in JsonBodies, c \in {"", "fence"}}

\* one call of the enhancer (it keeps no state between calls)
EnhanceCall(all_dialogue_data, response) ==
    /\ last_enhance.op = "init"
    /\ last_enhance' = [op |-> "enhance", input |-> all_dialogue_data,
                        response |-> response,
                        output |-> EnhanceAllDialogueAtOnce(all_dialogue_data, response)]
    /\ UNCHANGED <<voice_registry, registry_file, last_call, auto_log, storeVars,
                   run, published, scenes_done, unified_output_file, last_validate, jobs>>

NextEnhance ==
    \E all_dialogue_data \in DialogueLists, response \in Responses :
        EnhanceCall(all_dialogue_data, response)

SpecEnhance == InitStores /\ [][NextEnhance]_vars

----------------------------------------------------------------------------
(* Claims about the Character Consistency Store, checked under SpecStore *)

Registered == last_register.op = "register"

\* C2: the voice handle of an Identity Record is set when the record is created and
\* never changes: a register call leaves the handle of every record it found in
\* place, and a call that returns gives every name of its roster the handle the
\* first returning call gave that name, in the same scene or another one and
\* across re-created managers.
C2_VoiceHandleSetOnce ==
    [][ last_register'.op = "register" =>
          /\ \A i \in 1..Len(consistency_data.characters) :
                /\ i <= Len(consistency_data'.characters)
                /\ consistency_data'.characters[i].name = consistency_data.characters[i].name
                /\ consistency_data'.characters[i].voice_id
                      = consistency_data.characters[i].voice_id
          /\ last_register'.ok =>
                \A n \in DOMAIN last_register'.ret :
                    n \in DOMAIN first_voice => last_register'.ret[n] = first_voice[n]
      ]_vars

\* a returning call met a name whose record was made in another scene, with the
\* record's handle taken over from a similar character and the roster now
\* describing the name differently
C2_Witness ==
    /\ Registered /\ last_register.ok
    /\ \E k \in 1..Len(last_register.events) :
          LET e == last_register.events[k]
          IN /\ ~e.new
             /\ \E i \in 1..Len(e.before) :
                   /\ e.before[i].name = e.name
                   /\ e.before[i].scenes[1] # last_register.scene_id
                   /\ e.before[i].character_type # e.data.importance
                   /\ e.before[i].voice_id = e.voice
                   /\ e.name \notin DOMAIN voice_registry.registry.characters

\* one name contains the other, ignoring case
NameRelated(a, b) == NameSimilarityTable[a][b] > 0

SameImportanceAndEmotion(char_data, record) ==
    /\ char_data.importance = record.character_type
    /\ char_data.dominant_emotion = record.dominant_emotion

\* C6: identity convergence: a new name met by register_scene while a record exists
\* whose name contains it or is contained in it, with equal importance and dominant
\* emotion, is given that record's voice handle, whatever the two appearance counts.
C6_IdentityConvergence ==
    Registered =>
        \A k \in 1..Len(last_register.events) :
            LET e == last_register.events[k]
            IN e.new =>
                 \A i \in 1..Len(e.before) :
                     (NameRelated(e.name, e.before[i].name)
                        /\ SameImportanceAndEmotion(e.data, e.before[i]))
                     => e.voice = e.before[i].voice_id

\* C7: non-convergence: a new name met by register_scene that has no name relation
\* to an existing record and differs from it in importance and in dominant emotion
\* receives a voice handle different from that record's, after any earlier
\* registrations.
C7_NonConvergence ==
    Registered =>
        \A k \in 1..Len(last_register.events) :
            LET e == last_register.events[k]
            IN (e.new /\ e.voice # None) =>
                 \A i \in 1..Len(e.before) :
                     (~NameRelated(e.name, e.before[i].name)
                        /\ e.data.importance # e.before[i].character_type
                        /\ e.data.dominant_emotion # e.before[i].dominant_emotion)
                     => e.voice # e.before[i].voice_id

----------------------------------------------------------------------------
(* Claims about the enhancer, checked under SpecEnhance *)

\* the response is text that parses to a sequence (a JSON array, or a JSON string
\* taken character by character)
SequenceResponse(response) ==
    /\ response.kind = "text"
    /\ ParseResponse(response.text).ok
    /\ response.text.body.type \in {"array", "string"}

\* C8: batch enhancement alignment: for n input lines, a response whose length is
\* not n is rejected and the input list is returned unchanged, so no line carries
\* enhanced text; a response of length n gives, in the same order, line i of the
\* input with only its text replaced by item i of the response.  Every response
\* that is not a sequence at all also returns the input unchanged.
C8_BatchEnhancementAlignment ==
    last_enhance.op = "enhance" =>
        LET input == last_enhance.input
            output == last_enhance.output
            response == last_enhance.response
        IN IF SequenceResponse(response) /\ Len(response.text.body.items) = Len(input)
           THEN /\ Len(output) = Len(input)
                /\ \A i \in 1..Len(input) :
                      /\ output[i].text = response.text.body.items[i]
                      /\ output[i].speaker = input[i].speaker
                      /\ output[i].page_number = input[i].page_number
                      /\ output[i].original_page_index = input[i].original_page_index
           ELSE output = input

\* a fenced array one item longer than the input was returned and rejected
C8_Witness ==
    /\ last_enhance.op = "enhance"
    /\ last_enhance.response.kind = "text"
    /\ last_enhance.response.text.open = "fence_json"
    /\ last_enhance.response.text.body.type = "array"
    /\ Len(last_enhance.input) = 2
    /\ Len(last_enhance.response.text.body.items) = 3
    /\ last_enhance.output = last_enhance.input
    /\ last_enhance.input[1].text # last_enhance.input[2].text

----------------------------------------------------------------------------
(* The scene pipeline, one process_pdf_scene call at a time *)

MaxScenes == 2
MaxPages == 2

\* Pass 1's characters list: a prefix of this cast
Cast ==
    <<[name |-> Hannes, appears_in_pages |-> <<1>>, importance |-> "main"],
      [name |-> OldHannes, appears_in_pages |-> <<1>>, importance |-> "main"]>>

Pass1Outcomes ==
    {[ok |-> FALSE, characters |-> <<>>]}
    \cup {[ok |-> TRUE, characters |-> SubSeq(Cast, 1, k)] : k \in 0..Len(Cast)}

PageSpeakers == {Hannes, OldHannes, SoundEffect}

\* a page on which one speaker has one line; a sound effect is no speaking character
SpokenPage(speaker) ==
    [scene |-> "A street",
     speaking_characters |-> IF speaker = SoundEffect THEN <<>> ELSE <<[name |-> speaker]>>,
     dialogue_order |-> <<[speaker |-> speaker, text |-> "one"]>>]

\* a page whose speaking_characters entry has no name
NamelessPage ==
    [scene |-> "A street", speaking_characters |-> <<[expression |-> "angry"]>>,
     dialogue_order |-> <<>>]

\* what Pass 2 does with a page: the image cannot be opened (the open is outside
\* the try), the model call or the parse fails (minimal analysis), or an analysis
Pass2Outcomes ==
    {[kind |-> "unreadable", analysis |-> MinimalAnalysis],
     [kind |-> "failed", analysis |-> MinimalAnalysis],
     [kind |-> "analysis", analysis |-> NamelessPage]}
    \cup {[kind |-> "analysis", analysis |-> SpokenPage(s)] : s \in PageSpeakers}

\* answers of the enhancement model to n collected lines: an error, no text,
\* text that is no JSON, an array of n tagged texts, an array of n + 1
PipelineResponses(n) ==
    {[kind |-> "raise", text |-> NoText], [kind |-> "empty", text |-> NoText],
     [kind |-> "text", text |-> NoText]}
    \cup {[kind |-> "text",
           text |-> [open |-> "", body |-> JsonValue("array", [i \in 1..k |-> "[sighs] one"]),
                     close |-> ""]] : k \in {n, n + 1}}

\* what no step of the single pipeline writes
histVars == <<last_call, auto_log, entries, last_enhance, last_validate, jobs>>

Returned == run.pc \in {"done", "failed"}

\* process_pdf_scene is called with its two image flags: step 1 extracts
\* total_pages page images (whatever extract_images says)
StartSceneWith(scene_id, total_pages, extract_images, cleanup_images) ==
    /\ run.pc = "idle" \/ Returned
    /\ scenes_done < MaxScenes
    /\ run' = [ProcessRun("pass1", scene_id, total_pages, "extracted") EXCEPT
                  !.extract_images = extract_images, !.cleanup_images = cleanup_images]
    /\ scenes_done' = scenes_done + 1
    /\ UNCHANGED <<voice_registry, registry_file, storeVars, histVars, published,
                   unified_output_file>>

\* process_pdf_scene is called with the flags at their defaults
StartScene(scene_id, total_pages) ==
    /\ run.pc = "idle" \/ Returned
    /\ scenes_done < MaxScenes
    /\ run' = ProcessRun("pass1", scene_id, total_pages, "extracted")
    /\ scenes_done' = scenes_done + 1
    /\ UNCHANGED <<voice_registry, registry_file, storeVars, histVars, published,
                   unified_output_file>>

\* a variant of Pass 1 that answers a failure with an empty character list
Pass1ResultFallsBack(r, outcome) ==
    [r EXCEPT !.pc = "pass2", !.characters = outcome.characters,
              !.pass1 = IF outcome.ok THEN "ok" ELSE "raised",
              !.stages = Append(@, Stage("pass1", 0))]

\* the locals after _pass1_character_identification: analyze_scene_characters
\* re-raises its failure and process_pdf_scene re-raises it again
Pass1Result(r, outcome) ==
    IF outcome.ok
    THEN [r EXCEPT !.pc = "pass2", !.pass1 = "ok", !.characters = outcome.characters,
                   !.stages = Append(@, Stage("pass1", 0))]
    ELSE [r EXCEPT !.pc = "failed", !.pass1 = "raised",
                   !.stages = Append(@, Stage("pass1", 0))]

\* _pass1_character_identification: it raises, or names the scene's characters
Pass1(outcome) ==
    /\ run.pc = "pass1"
    /\ run' = Pass1Result(run, outcome)
    /\ UNCHANGED <<voice_registry, registry_file, storeVars, histVars, published,
                   scenes_done, unified_output_file>>

\* a variant of Pass 2 that analyses a page again when its analysis fell back
Pass2AnalysedRetries(r, page_number, outcome) ==
    IF outcome.kind = "failed"
    THEN [r EXCEPT !.stages = Append(@, Stage("pass2", page_number))]
    ELSE [r EXCEPT !.page_analyses = Append(@, outcome.analysis),
                   !.pc = IF page_number = r.total_pages THEN "register" ELSE "pass2",
                   !.stages = Append(@, Stage("pass2", page_number))]

\* the locals after Pass 2 analysed the next page
Pass2Analysed(r, page_number, outcome) ==
    [r EXCEPT !.page_analyses = Append(@, outcome.analysis),
              !.pass2_failed = IF outcome.kind = "failed" THEN @ \cup {page_number} ELSE @,
              !.pc = IF page_number = r.total_pages THEN "register" ELSE "pass2",
              !.stages = Append(@, Stage("pass2", page_number))]

\* one turn of the loop of _pass2_individual_dialogue_extraction
Pass2Page(outcome) ==
    /\ run.pc = "pass2"
    /\ run' = IF outcome.kind = "unreadable"
              THEN [run EXCEPT !.pc = "failed",
                               !.stages = Append(@, Stage("pass2",
                                                          Len(run.page_analyses) + 1))]
              ELSE Pass2Analysed(run, Len(run.page_analyses) + 1, outcome)
    /\ UNCHANGED <<voice_registry, registry_file, storeVars, histVars, published,
                   scenes_done, unified_output_file>>

\* the locals after steps 3 and 4
AfterRegister(r, reg) ==
    IF reg.ok
    THEN [r EXCEPT !.pc = "enhance", !.voice_assignments = reg.ret,
                   !.all_dialogue_data = CollectDialogue(r.page_analyses, 1, <<>>),
                   !.stages = Append(@, Stage("register", 0))]
    ELSE [r EXCEPT !.pc = "failed", !.stages = Append(@, Stage("register", 0))]

\* steps 3 and 4: the roster is registered on the shared manager and registry,
\* then the dialogue of all pages is collected
RegisterStep ==
    /\ run.pc = "register"
    /\ \E reg \in {RegisterSceneCharacters(
                      consistency_data, voice_registry, registry_file, consistency_file,
                      run.scene_id,
                      BuildFinalSceneAnalysis(run.page_analyses, run.characters))} :
       /\ consistency_data' = reg.data
       /\ voice_registry' = reg.vr
       /\ registry_file' = reg.rfile
       /\ consistency_file' = reg.cfile
       /\ last_register' = [op |-> "register", scene_id |-> run.scene_id, ok |-> reg.ok,
                            ret |-> reg.ret, events |-> reg.events]
       /\ first_voice' = IF reg.ok THEN Update(reg.ret, first_voice) ELSE first_voice
       /\ run' = AfterRegister(run, reg)
    /\ UNCHANGED <<histVars, published, scenes_done, unified_output_file>>

\* step 5: the single enhancement call; the model is asked only when there is
\* dialogue
Enhance(response) ==
    /\ run.pc = "enhance"
    /\ run' = [run EXCEPT !.pc = "assemble", !.response = response,
                          !.enhanced_all_dialogue =
                              EnhanceAllDialogueAtOnce(run.all_dialogue_data, response),
                          !.stages = IF Len(run.all_dialogue_data) = 0 THEN @
                                     ELSE Append(@, Stage("enhance", 0))]
    /\ UNCHANGED <<voice_registry, registry_file, storeVars, histVars, published,
                   scenes_done, unified_output_file>>

\* step 6: one turn of the per-page loop
AssemblePage ==
    /\ run.pc = "assemble"
    /\ \E p \in {ProcessPage(run, voice_registry, registry_file)} :
       /\ run' = [p.run EXCEPT !.pc = IF run.page = run.total_pages
                                      THEN "persist" ELSE "assemble"]
       /\ voice_registry' = p.vr
       /\ registry_file' = p.file
    /\ UNCHANGED <<storeVars, histVars, published, scenes_done, unified_output_file>>

\* step 7: the unified script is written to page_unknown.json
Persist ==
    /\ run.pc = "persist"
    /\ unified_output_file' = [exists |-> TRUE, document |-> UnifiedJson(run)]
    /\ published' = PublishedAfter(published, run.all_dialogue)
    /\ run' = [run EXCEPT !.pc = "cleanup", !.stages = Append(@, Stage("persist", 0))]
    /\ UNCHANGED <<voice_registry, registry_file, storeVars, histVars, scenes_done>>

\* step 8: the page images are cleaned up when both flags ask for it
Cleanup(outcome) ==
    /\ run.pc = "cleanup"
    /\ run' = CleanupResult(run, outcome)
    /\ UNCHANGED <<voice_registry, registry_file, storeVars, histVars, published,
                   scenes_done, unified_output_file>>

\* step 9: final_results is compiled and returned
Finish ==
    /\ run.pc = "summary"
    /\ run' = [run EXCEPT !.pc = "done"]
    /\ UNCHANGED <<voice_registry, registry_file, storeVars, histVars, published,
                   scenes_done, unified_output_file>>

\* PDFToAudioPipeline.__init__ in a new process: manager and registry read the
\* durable stores back
NewPipeline ==
    /\ Returned
    /\ scenes_done < MaxScenes
    /\ consistency_data' = LoadConsistencyData(consistency_file)
    /\ voice_registry' = NewVoiceRegistry(registry_file)
    /\ last_register' = [op |-> "new"]
    /\ run' = IdleRun
    /\ UNCHANGED <<registry_file, consistency_file, first_voice, histVars, published,
                   scenes_done, unified_output_file>>

NextPipeline ==
    \/ \E scene_id \in SceneIds, total_pages \in 1..MaxPages :
          StartScene(scene_id, total_pages)
    \/ \E outcome \in Pass1Outcomes : Pass1(outcome)
    \/ \E outcome \in Pass2Outcomes : Pass2Page(outcome)
    \/ RegisterStep
    \/ \E response \in PipelineResponses(Len(run.all_dialogue_data)) : Enhance(response)
    \/ AssemblePage
    \/ Persist
    \/ \E outcome \in CleanupOutcomes : Cleanup(outcome)
    \/ Finish
    \/ NewPipeline

SpecPipeline == InitStores /\ [][NextPipeline]_vars

\* C11: a call whose Pass 1 succeeded reaches the persisted state whatever
\* happens in Pass 2, registration, enhancement or assembly: when it has
\* returned, it returned after writing the unified script, not by raising.
C11_PersistedAfterPass1 ==
    (run.pass1 = "ok" /\ Returned) => (run.pc = "done" /\ unified_output_file.exists)

\* C12: a failing Pass 1 ends the call: no Pass-2 analysis exists, and neither
\* the start of the call nor the failing Pass 1 changes the Consistency Store,
\* the Voice Registry, their files or the script file.
C12_Pass1FailureIsSceneFatal ==
    [][/\ run'.pass1 = "raised" =>
             /\ run'.pc = "failed"
             /\ run'.page_analyses = <<>>
             /\ run'.voice_assignments = EmptyDict
       /\ (run'.pc = "pass1" \/ (run.pc = "pass1" /\ run'.pass1 = "raised")) =>
             UNCHANGED <<consistency_data, consistency_file, voice_registry,
                         registry_file, unified_output_file, published>>]_vars

\* a call has failed in Pass 1 after another call left records and bindings
C12_Witness ==
    /\ run.pass1 = "raised"
    /\ Len(consistency_data.characters) > 0
    /\ unified_output_file.exists

\* C13: a Pass-2 failure on a page, an unreadable page image included, never
\* aborts the scene: no Pass-2 step ends the call.
C13_Pass2NeverAborts ==
    [][run.pc = "pass2" => run'.pc # "failed"]_vars

\* C1: every line attributed to a speaker name in the persisted scripts carries
\* one voice handle, across the pages of a scene, across scenes, and across
\* pipeline instances that reload the stores.
C1_VoiceStablePerSpeaker ==
    \A n \in DOMAIN published : Cardinality(published[n]) <= 1

\* C9: a returned scene of n pages whose Pass 2 failed on the set F of pages
\* (and whose assembly raised on no page) reports total_pages = n,
\* successful_pages = n - |F| and failed_pages = |F|.
C9_PartialFailureContainment ==
    (run.pc = "done" /\ run.assembly_failed = {}) =>
        /\ FinalResults(run).total_pages = run.total_pages
        /\ FinalResults(run).successful_pages = run.total_pages - Cardinality(run.pass2_failed)
        /\ FinalResults(run).failed_pages = Cardinality(run.pass2_failed)

\* the enhancement call failed: the collaborator raised, answered nothing, or
\* answered text json.loads rejects
EnhancementFailed(response) ==
    \/ response.kind \in {"raise", "empty"}
    \/ response.kind = "text" /\ ~ParseResponse(response.text).ok

\* speaker, text and page of every line of a dialogue list
Lines(dialogue) ==
    [i \in 1..Len(dialogue) |->
        <<dialogue[i].speaker, dialogue[i].text, dialogue[i].page_number>>]

NotNarrator(line) == line.speaker # Narrator

\* C14: when the enhancement call fails, enhance_all_dialogue_at_once returns
\* its input unchanged and the call does not fail: the script it persists
\* carries, on every dialogue line, the text Pass 2 extracted.
C14_EnhancementFailureShipsOriginalText ==
    EnhancementFailed(run.response) =>
        /\ run.enhanced_all_dialogue = run.all_dialogue_data
        /\ run.pc # "failed"
        /\ run.pc \in {"cleanup", "summary", "done"} =>
               LET assembled(line) == line.page_number \notin run.assembly_failed
               IN Lines(SelectSeq(unified_output_file.document.dialogue, NotNarrator))
                      = Lines(SelectSeq(run.all_dialogue_data, assembled))

\* a returned two-line scene whose enhancement answer was no JSON
C14_Witness ==
    /\ run.pc = "done"
    /\ run.response.kind = "text"
    /\ EnhancementFailed(run.response)
    /\ Len(run.all_dialogue_data) = 2
    /\ Len(unified_output_file.document.dialogue) = 4

\* C15: register_scene_characters is atomic: a call that raises part-way through
\* the roster leaves scenes, characters and voice_assignments, in memory and on
\* disk, exactly as they were before the call.
C15_RegisterIsAtomic ==
    [][(last_register'.op = "register" /\ ~last_register'.ok) =>
           /\ consistency_data' = consistency_data
           /\ consistency_file' = consistency_file]_vars

\* C16: a "Sound Effect" speaker is never registered as a character: it has no
\* Identity Record, no Voice Registry binding and no entry in the characters
\* map of the persisted script.
C16_SoundEffectNeverRegistered ==
    /\ ~HasCharacter(consistency_data.characters, SoundEffect)
    /\ SoundEffect \notin DOMAIN voice_registry.registry.characters
    /\ unified_output_file.exists =>
           SoundEffect \notin DOMAIN unified_output_file.document.characters

NotSoundEffect(line) == line.speaker # SoundEffect

\* C17: the dialogue list of the persisted script has exactly as many lines as
\* Pass 2 extracted entries whose speaker is not "Sound Effect" (every page
\* having been assembled).
C17_DialogueListIsCharacterLines ==
    (run.pc \in {"cleanup", "summary", "done"} /\ run.assembly_failed = {}) =>
        Len(unified_output_file.document.dialogue)
            = Len(SelectSeq(run.all_dialogue_data, NotSoundEffect))

\* C18: a persisted script with an assembled page has a Narrator entry whose
\* handle differs from the handle of every other character of the script, and
\* its first line is the Narrator's.
C18_NarratorHasOwnVoice ==
    (unified_output_file.exists
        /\ unified_output_file.document.metadata.successful_pages > 0) =>
        LET characters == unified_output_file.document.characters
        IN /\ Narrator \in DOMAIN characters
           /\ \A n \in (DOMAIN characters) \ {Narrator} :
                  characters[n].voice_id # characters[Narrator].voice_id
           /\ unified_output_file.document.dialogue[1].speaker = Narrator

----------------------------------------------------------------------------
(* validate_json called on documents *)

\* values of the characters field
CharactersValues ==
    LET good == JsonDict([f \in {"voice_id", "expression"} |-> JsonStr])
        voiceless == JsonDict([f \in {"expression"} |-> JsonStr])
    IN {JsonNone, JsonList(<<>>), JsonDict(EmptyDict)}
       \cup {JsonDict([n \in {"Eren"} |-> c]) : c \in {good, voiceless, JsonStr}}
       \cup {JsonDict([n \in {"Eren", "Mikasa"} |-> IF n = "Eren" THEN good ELSE c]) :
                 c \in {good, voiceless}}

\* values of the dialogue field
DialogueValues ==
    LET item(fields) == JsonDict([f \in fields |-> JsonStr])
        good == item({"speaker", "voice_id", "text", "emotion"})
    IN {JsonNone, JsonDict(EmptyDict), JsonList(<<>>), JsonList(<<good>>),
        JsonList(<<JsonStr>>), JsonList(<<good, good>>)}
       \cup {JsonList(<<good, item(required_dialogue_fields \ {f})>>) :
                 f \in required_dialogue_fields}

\* documents a caller may hand to validate_json: dicts with any of the required
\* fields, and documents that are no dict
Documents ==
    {JsonDict([k \in fields |->
                  CASE k = "characters" -> characters
                    [] k = "dialogue" -> dialogue
                    [] OTHER -> JsonStr]) :
        fields \in SUBSET required_fields,
        characters \in CharactersValues, dialogue \in DialogueValues}
    \cup {JsonNone, JsonNumber, JsonList(<<>>)}

\* what build_eleven_json returns for the pages of the pipeline on a fresh registry
BuiltDocuments ==
    {ElevenJson(BuildElevenJson(NewVoiceRegistry(Absent), Absent, page,
                                [dialogue_order |-> page.dialogue_order])) :
        page \in {MinimalAnalysis} \cup {SpokenPage(speaker) : speaker \in PageSpeakers}}

ValidateCall(eleven_json, built) ==
    /\ last_validate.op = "init"
    /\ last_validate' = [op |-> "validate", input |-> eleven_json, built |-> built,
                         result |-> ValidateJson(eleven_json)]
    /\ UNCHANGED <<voice_registry, registry_file, last_call, auto_log, storeVars,
                   run, published, scenes_done, unified_output_file, last_enhance, jobs>>

NextValidate ==
    \/ \E eleven_json \in Documents : ValidateCall(eleven_json, FALSE)
    \/ \E eleven_json \in BuiltDocuments : ValidateCall(eleven_json, TRUE)

SpecValidate == InitStores /\ [][NextValidate]_vars

\* the shape the specification requires of a script
WellFormedScript(script) ==
    /\ script.type = "dict"
    /\ required_fields \subseteq DOMAIN script.members
    /\ LET characters == script.members["characters"]
           dialogue == script.members["dialogue"]
       IN /\ characters.type = "dict"
          /\ \A n \in DOMAIN characters.members :
                 /\ characters.members[n].type = "dict"
                 /\ "voice_id" \in DOMAIN characters.members[n].members
          /\ dialogue.type = "list"
          /\ \A i \in 1..Len(dialogue.items) :
                 /\ dialogue.items[i].type = "dict"
                 /\ {"speaker", "voice_id", "text"} \subseteq DOMAIN dialogue.items[i].members

----------------------------------------------------------------------------
(* Registration of names that resemble each other, one name per scene *)

\* spellings and variants of one name, as Pass 1 may report them
SimilarNames == {Hannes, LowerHannes, OldHannes, MissHannes}

\* the two-pass analyzer reports no dominant_emotion: every entry reads "neutral"
SimilarDatas ==
    {[importance |-> t, appearance_count |-> c, dominant_emotion |-> "neutral"] :
        t \in Importances, c \in AppearanceCounts}

NextSimilarity ==
    \E char_name \in SimilarNames, char_data \in SimilarDatas :
        RegisterScene("s1", <<char_name>>, [n \in {char_name} |-> char_data])

SpecSimilarity == InitStores /\ [][NextSimilarity]_vars

\* the score of the specification, in exact arithmetic, is above 0.7
ExactlyAbove(sim) == sim.tenths * sim.hi + sim.lo > 7 * sim.hi

\* a < b in exact arithmetic
ExactlyLess(a, b) == (a.tenths * a.hi + a.lo) * b.hi < (b.tenths * b.hi + b.lo) * a.hi

\* the scores of a new name against the records that existed
Scores(e) ==
    [i \in 1..Len(e.before) |->
        CalculateCharacterSimilarity(e.name, e.data, e.before[i].name, e.before[i])]

\* the first of the highest-scoring records among those above 0.7
BestMatch(e) ==
    CHOOSE i \in 1..Len(e.before) :
        /\ ExactlyAbove(Scores(e)[i])
        /\ \A j \in 1..Len(e.before) : ~ExactlyLess(Scores(e)[i], Scores(e)[j])
        /\ \A j \in 1..(i - 1) : ExactlyLess(Scores(e)[j], Scores(e)[i])

\* C20: a new name is scored against every existing record; if a score is
\* strictly above 0.7 the new record takes the handle of the highest-scoring
\* record, the first one on a tie, and the registry is not asked; otherwise
\* (a score of exactly 0.7 included) the handle is a fresh one from the registry.
C20_AdoptsHighestScoreAboveThreshold ==
    (Registered /\ last_register.ok) =>
        \A k \in 1..Len(last_register.events) :
            LET e == last_register.events[k]
            IN e.new =>
                 IF \E i \in 1..Len(e.before) : ExactlyAbove(Scores(e)[i])
                 THEN /\ e.source = e.before[BestMatch(e)].name
                      /\ e.voice = e.before[BestMatch(e)].voice_id
                 ELSE e.source = None

----------------------------------------------------------------------------
(* Claims about what the enhancer lets through, checked under SpecEnhance *)

\* Python's `original in enhanced` on the texts of the model: a text contains
\* itself, and a tagged text contains the words its tag was put in front of
TextContains(enhanced, original) ==
    \/ enhanced = original
    \/ enhanced = "[sighs] one" /\ original = "one"
    \/ enhanced = "[angry] two" /\ original = "two"

\* C21: enhancement never alters the original words: every line whose enhanced
\* text is accepted (the output differs from the input) carries a text that
\* contains the line's original text.
C21_EnhancementKeepsOriginalWords ==
    last_enhance.op = "enhance" =>
        \A i \in 1..Len(last_enhance.output) :
            TextContains(last_enhance.output[i].text, last_enhance.input[i].text)

----------------------------------------------------------------------------
(* Claims about re-registration, checked under SpecStore *)

\* the Identity Records as iteration k of the latest call's roster loop left them
RecordsAfter(k) ==
    IF k < Len(last_register.events)
    THEN last_register.events[k + 1].before
    ELSE consistency_data.characters

\* C22: when register_scene meets a name that has an Identity Record, the
\* record's handle is returned unchanged and no other record is consulted, the
\* scene id is appended to the record's scenes list, and the record's
\* appearance_count is updated from the new scene's data (it changes whenever the
\* scene reports a positive count different from the recorded one).
C22_ExistingNameIsUpdated ==
    Registered =>
        \A k \in 1..Len(last_register.events) :
            LET e == last_register.events[k]
                i == CharacterIndex(e.before, e.name)
                after == RecordsAfter(k)
            IN ~e.new =>
                /\ e.voice = e.before[i].voice_id
                /\ e.source = None
                /\ after[i].voice_id = e.before[i].voice_id
                /\ after[i].scenes = Append(e.before[i].scenes, last_register.scene_id)
                /\ (e.data.appearance_count > 0
                    /\ e.data.appearance_count # e.before[i].appearance_count)
                       => after[i].appearance_count # e.before[i].appearance_count

\* C23: the scenes list of an Identity Record is an ordered set: after any
\* sequence of register_scene calls no scene id occurs in it twice.
C23_ScenesListHasNoDuplicates ==
    \A i \in 1..Len(consistency_data.characters) :
        LET scenes == consistency_data.characters[i].scenes
        IN \A a, b \in 1..Len(scenes) : scenes[a] = scenes[b] => a = b

\* C24: a Scene Record and the scene's Voice Assignment Map are written once: a
\* register_scene call with a scene_id that is already registered leaves the
\* Scene Record and the Voice Assignment Map of that scene as they were.
C24_SceneRecordWrittenOnce ==
    [][ \A scene_id \in SceneIds :
            (last_register'.op = "register" /\ last_register'.scene_id = scene_id
             /\ last_register' # last_register
             /\ scene_id \in DOMAIN consistency_data.scenes)
            => /\ consistency_data'.scenes[scene_id] = consistency_data.scenes[scene_id]
               /\ scene_id \in DOMAIN consistency_data.voice_assignments
                    => consistency_data'.voice_assignments[scene_id]
                           = consistency_data.voice_assignments[scene_id] ]_vars

----------------------------------------------------------------------------
(* The Voice Registry under assign and reassign *)

\* handles a caller reassigns to: a pool handle of either gender, or its own
ReassignVoices == {male_voices[1], female_voices[1]} \cup ExplicitVoices

\* a caller's reassign_voice, with what it passed
ReassignVoiceCall(character_name, new_voice_id) ==
    /\ \E r \in {ReassignVoice(voice_registry, registry_file, character_name, new_voice_id)} :
          /\ voice_registry' = r.vr
          /\ registry_file' = r.file
    /\ last_call' = [op |-> "reassign", name |-> character_name, voice_id |-> new_voice_id,
                     character_type |-> None,
                     bound_before |-> IsBound(character_name),
                     ret |-> None]
    /\ UNCHANGED <<auto_log, storeVars, pipeVars>>

\* the assign calls of this specification: by name, with a gender hint, or with
\* an explicit handle
UsageShapes == {<<None, None>>, <<None, "female">>} \cup {<<v, None>> : v \in ExplicitVoices}

NextUsage ==
    \/ \E n \in RegistryNames, c \in UsageShapes : AssignVoiceCall(n, c[1], c[2])
    \/ \E n \in RegistryNames, v \in ReassignVoices : ReassignVoiceCall(n, v)

SpecUsage == InitStores /\ [][NextUsage]_vars

\* the names bound to voice_id in a registry dict
BoundTo(registry, voice_id) ==
    {n \in DOMAIN registry.characters : registry.characters[n].voice_id = voice_id}

\* every handle's usage counter is the number of names bound to it and its usage
\* list holds exactly those names, each once
UsageConsistent(registry) ==
    /\ \A n \in DOMAIN registry.characters :
          registry.characters[n].voice_id \in DOMAIN registry.voice_usage
    /\ \A v \in DOMAIN registry.voice_usage :
          LET usage == registry.voice_usage[v]
          IN /\ usage.count = Cardinality(BoundTo(registry, v))
             /\ Len(usage.characters) = usage.count
             /\ {usage.characters[i] : i \in 1..Len(usage.characters)} = BoundTo(registry, v)

\* C25: after any sequence of assign and reassign calls on a registry that
\* started empty, every handle's usage counter equals the number of names bound
\* to it and its usage list holds exactly those names; reassign of a bound name
\* binds it to the new handle, moves it from the old handle's usage to the new
\* one's, touches no other binding and persists; reassign of a name without a
\* binding changes nothing.
C25_UsageMatchesBindings ==
    [][ /\ UsageConsistent(voice_registry'.registry)
        /\ last_call'.op = "reassign" =>
              LET n == last_call'.name
                  new == last_call'.voice_id
                  before == voice_registry.registry
                  after == voice_registry'.registry
              IN IF last_call'.bound_before
                 THEN LET old == before.characters[n].voice_id
                      IN /\ after.characters[n].voice_id = new
                         /\ \A m \in DOMAIN before.characters \ {n} :
                               after.characters[m] = before.characters[m]
                         /\ DOMAIN after.characters = DOMAIN before.characters
                         /\ BoundTo(after, new) = BoundTo(before, new) \cup {n}
                         /\ old # new => BoundTo(after, old) = BoundTo(before, old) \ {n}
                         /\ registry_file' = SaveRegistry(voice_registry')
                 ELSE UNCHANGED <<voice_registry, registry_file>> ]_vars

\* a name was moved off a handle it shared with another name
C25_Witness ==
    /\ last_call.op = "reassign"
    /\ last_call.bound_before
    /\ \E v \in DOMAIN voice_registry.registry.voice_usage :
          /\ v # last_call.voice_id
          /\ voice_registry.registry.voice_usage[v].count = 1
          /\ \E w \in DOMAIN voice_registry.registry.voice_usage :
                w # v /\ voice_registry.registry.voice_usage[w].count = 2
    /\ voice_registry.registry.characters[last_call.name].voice_id = last_call.voice_id

----------------------------------------------------------------------------
(* The scene pipeline called with every combination of its image flags *)

\* Pass 1 raises or names one character
CleanupPass1Outcomes ==
    {[ok |-> FALSE, characters |-> <<>>], [ok |-> TRUE, characters |-> SubSeq(Cast, 1, 1)]}

\* Pass 2 cannot open the image, falls back, or finds one line
CleanupPass2Outcomes ==
    {[kind |-> "unreadable", analysis |-> MinimalAnalysis],
     [kind |-> "failed", analysis |-> MinimalAnalysis],
     [kind |-> "analysis", analysis |-> SpokenPage(Hannes)]}

NextCleanup ==
    \/ \E scene_id \in SceneIds, total_pages \in 1..MaxPages :
          \E extract_images, cleanup_images \in BOOLEAN :
              StartSceneWith(scene_id, total_pages, extract_images, cleanup_images)
    \/ \E outcome \in CleanupPass1Outcomes : Pass1(outcome)
    \/ \E outcome \in CleanupPass2Outcomes : Pass2Page(outcome)
    \/ RegisterStep
    \/ \E response \in PipelineResponses(Len(run.all_dialogue_data)) : Enhance(response)
    \/ AssemblePage
    \/ Persist
    \/ \E outcome \in CleanupOutcomes : Cleanup(outcome)
    \/ Finish

SpecCleanup == InitStores /\ [][NextCleanup]_vars

\* the states of the page images in which at least one image has been deleted
DeletedImages == {"deleted", "partly_deleted", "files_deleted"}

\* C26: page images are deleted only by the cleanup step, after this call's
\* unified script has been persisted and only when the call asked for cleanup;
\* whatever the deletion meets, the step does not raise, and it changes neither
\* the persisted script nor the result the call returns; a call that failed
\* before persisting has deleted no image.
C26_CleanupOnlyAfterPersisted ==
    [][ /\ (run'.images \in DeletedImages /\ run'.images # run.images) =>
              /\ run.pc = "cleanup"
              /\ run.extract_images /\ run.cleanup_images
              /\ unified_output_file.exists
              /\ unified_output_file.document = UnifiedJson(run)
        /\ run.pc = "cleanup" =>
              /\ run'.pc = "summary"
              /\ FinalResults(run') = FinalResults(run)
              /\ UNCHANGED unified_output_file
        /\ run'.pc = "failed" => run'.images = "extracted" ]_vars

\* a call returned after an image could not be deleted
C26_Witness ==
    /\ run.pc = "done"
    /\ run.images = "partly_deleted"
    /\ run.total_pages = 2
    /\ unified_output_file.exists
    /\ unified_output_file.document = UnifiedJson(run)

----------------------------------------------------------------------------
(* Claims about the order of the stages, checked under SpecPipeline *)

\* the stages of a whole call in the order the claim gives them
ExpectedStages(r) ==
    <<Stage("pass1", 0)>>
    \o [p \in 1..r.total_pages |-> Stage("pass2", p)]
    \o <<Stage("register", 0)>>
    \o (IF Len(r.all_dialogue_data) > 0 THEN <<Stage("enhance", 0)>> ELSE <<>>)
    \o [p \in 1..r.total_pages |-> Stage("assemble", p)]
    \o <<Stage("persist", 0)>>

IsPrefix(a, b) == Len(a) <= Len(b) /\ a = SubSeq(b, 1, Len(a))

----------------------------------------------------------------------------
(* Claims about the two stores together, checked under SpecPipeline *)

\* C28: the two stores never disagree: every name that has both an Identity
\* Record in the Consistency Store and a binding in the Voice Registry has the
\* same voice handle in both.
C28_StoresAgreeOnHandles ==
    \A i \in 1..Len(consistency_data.characters) :
        LET record == consistency_data.characters[i]
        IN record.name \in DOMAIN voice_registry.registry.characters
              => voice_registry.registry.characters[record.name].voice_id = record.voice_id

----------------------------------------------------------------------------
(* Two ingest jobs in the thread pool, each with its own pipeline instance over *)
(* the same voice_registry.json and character_consistency.json                 *)

\* the rosters Pass 1 gives a job; the two names are not similar to each other
JobRosters == {<<Hannes>>, <<Eren>>, <<Hannes, Eren>>}

\* the scene id of a job is the stem of its PDF
JobScene(j) == IF j = 1 THEN "s1" ELSE "s2"

\* _process_job builds its PDFToAudioPipeline: the manager and its registry read
\* the durable files as they are now
JobStart(j) ==
    /\ jobs[j].pc = "queued"
    /\ jobs' = [jobs EXCEPT ![j].pc = "processing",
                            ![j].data = LoadConsistencyData(consistency_file),
                            ![j].vr = NewVoiceRegistry(registry_file)]
    /\ UNCHANGED <<voice_registry, registry_file, storeVars, last_call, auto_log,
                   run, published, scenes_done, unified_output_file, last_enhance,
                   last_validate>>

\* the names of the roster-loop iterations that created a record
CreatedRecords(events) == {events[k].name : k \in {i \in 1..Len(events) : events[i].new}}

\* the job after step 3 of its process_pdf_scene
JobRegistered(job, characters, reg) ==
    [job EXCEPT !.pc = IF reg.ok THEN "assemble" ELSE "done",
                !.data = reg.data,
                !.vr = reg.vr,
                !.characters = characters,
                !.records = IF reg.ok THEN CreatedRecords(reg.events) ELSE {},
                !.bound = (DOMAIN reg.vr.registry.characters)
                              \ (DOMAIN job.vr.registry.characters),
                !.handles = reg.ret]

\* step 3 in job j: register_scene_characters on the job's own manager; its
\* saves replace the durable files by the job's in-memory dicts
JobRegister(j, characters) ==
    /\ jobs[j].pc = "processing"
    /\ \E reg \in {RegisterSceneCharacters(
                      jobs[j].data, jobs[j].vr, registry_file, consistency_file,
                      JobScene(j),
                      [total_pages |-> 1, characters |-> characters,
                       consistency |->
                           [n \in RosterNames(characters) |->
                               [importance |-> "main", appearance_count |-> 1,
                                dominant_emotion |-> "neutral"]]])} :
          /\ registry_file' = reg.rfile
          /\ consistency_file' = reg.cfile
          /\ jobs' = [jobs EXCEPT ![j] = JobRegistered(jobs[j], characters, reg)]
    /\ UNCHANGED <<voice_registry, consistency_data, last_register, first_voice, entries,
                   last_call, auto_log, run, published, scenes_done, unified_output_file,
                   last_enhance, last_validate>>

\* the job after its page was assembled
JobAssembled(job, eleven_json) ==
    [job EXCEPT !.pc = "done",
                !.vr = eleven_json.vr,
                !.bound = @ \cup ((DOMAIN eleven_json.vr.registry.characters)
                                     \ (DOMAIN job.vr.registry.characters))]

\* step 6 in job j: build_eleven_json on the job's registry for a page on which
\* the first character of the roster speaks
JobAssemble(j) ==
    /\ jobs[j].pc = "assemble"
    /\ \E eleven_json \in {BuildElevenJson(
                              jobs[j].vr, registry_file, SpokenPage(jobs[j].characters[1]),
                              [dialogue_order |->
                                  <<[speaker |-> jobs[j].characters[1], text |-> "one"]>>])} :
          /\ registry_file' = eleven_json.file
          /\ jobs' = [jobs EXCEPT ![j] = JobAssembled(jobs[j], eleven_json)]
    /\ UNCHANGED <<voice_registry, storeVars, last_call, auto_log, run, published,
                   scenes_done, unified_output_file, last_enhance, last_validate>>

NextJobs ==
    \E j \in JobIds :
        \/ JobStart(j)
        \/ \E characters \in JobRosters : JobRegister(j, characters)
        \/ JobAssemble(j)

SpecJobs == InitStores /\ [][NextJobs]_vars

\* C29: when two scene jobs run concurrently over the same durable files, voice
\* allocation and registration behave as atomic critical sections: after both
\* jobs have finished, the durable Consistency Store holds every Identity Record
\* and the durable Voice Registry every binding that either job created, and no
\* name was given two different handles.
C29_ConcurrentJobsLoseNothing ==
    (\A j \in JobIds : jobs[j].pc = "done") =>
        /\ \A j \in JobIds :
              /\ \A n \in jobs[j].records :
                    /\ consistency_file.exists
                    /\ HasCharacter(consistency_file.document.characters, n)
              /\ \A n \in jobs[j].bound :
                    /\ registry_file.exists
                    /\ n \in DOMAIN registry_file.document.characters
        /\ \A i, j \in JobIds :
              \A n \in (DOMAIN jobs[i].handles) \cap (DOMAIN jobs[j].handles) :
                  jobs[i].handles[n] = jobs[j].handles[n]

----------------------------------------------------------------------------
(* Claims about the gender of a record's handle, checked under SpecSimilarity *)

PoolHandles(gender) == {Pool(gender)[i] : i \in 1..Len(Pool(gender))}

\* C30: after any sequence of register_scene calls every Identity Record's voice
\* handle belongs to the pool of the gender recorded for it: a female record
\* holds a handle of the female pool, a male record a handle of the male pool.
C30_HandleMatchesRecordedGender ==
    \A i \in 1..Len(consistency_data.characters) :
        consistency_data.characters[i].voice_id
            \in PoolHandles(consistency_data.characters[i].gender)


====
